---- MODULE Spec2Model ----
(***************************************************************************)
(* Commit tracker: the scheduled producer (worker.js: runTracker,          *)
(* getCommitsInWindow, commitFiles, readJson) and the dashboard client     *)
(* (App.fetchData and its polling effect).                                 *)
(*                                                                         *)
(* Encoding of JavaScript values:                                          *)
(*   - an object is a function on its own keys; a key the object does not  *)
(*     have reads as Undefined (Prop);                                     *)
(*   - an array is a sequence; a Map is the sequence of its values in      *)
(*     insertion order (every value is keyed by its id);                   *)
(*   - a file is [kind |-> "missing"] or [kind |-> "json", val |-> v],     *)
(*     v the value its text denotes;                                       *)
(*   - time is counted in windows of five minutes; a time-of-day label is  *)
(*     the number of the window within its day.                            *)
(***************************************************************************)
EXTENDS Integers, Sequences, FiniteSets, TLC

\* ------------------------------------------------------------------ bounds
\* Scheduled invocations of the worker in one behaviour.
MaxRuns == 2
\* Largest number of commits the listing returns for one repository.
MaxCommits == 1
\* Invocations of fetchData in one behaviour (the initial load and the ticks).
MaxFetches == 2

\* ------------------------------------------------------- program constants
\* history.slice(-50)
HistoryCap == 50

\* ----------------------------------------------------------- JS primitives
Undefined == "undefined"

\* obj[key]: undefined when the object has no such key.
Prop(obj, key) == IF key \in DOMAIN obj THEN obj[key] ELSE Undefined

\* The keys of the artifacts whose values are strings, the only ones that can
\* hold Undefined (numbers and strings are kept apart in this encoding).
StringKeys == {"id", "name", "color"}

\* JSON.stringify of an object: keys whose value is undefined are left out.
StringifyObject(obj) ==
    LET keep == {k \in DOMAIN obj : k \notin StringKeys \/ obj[k] # Undefined}
    IN  [k \in keep |-> obj[k]]

\* JSON.stringify of an array of objects, read as the value the text denotes.
JsonStringify(arr) == [i \in 1..Len(arr) |-> StringifyObject(arr[i])]

\* now.toLocaleTimeString('en-US', {hour, minute}): the time of day, which
\* repeats every day (288 windows of five minutes).
TimeLabel(t) == t % 288

\* ------------------------------------------------------------------- files
MissingFile == [kind |-> "missing", val |-> <<>>]
JsonFile(v) == [kind |-> "json", val |-> v]
\* A file whose text JSON.parse rejects; val is what the text held before it
\* was damaged.
MalformedFile(v) == [kind |-> "malformed", val |-> v]

\* Mutant: a text that does not parse is salvaged instead of given up.
readJsonSalvages(file, defaultValue) ==
    IF file.kind = "missing" THEN defaultValue ELSE file.val

\* readJson(filePath, defaultValue): the parsed content, and defaultValue
\* when existsSync is false or JSON.parse throws (the catch only logs).
readJson(file, defaultValue) ==
    IF file.kind = "missing" THEN defaultValue
    ELSE IF file.kind = "malformed" THEN defaultValue
    ELSE file.val

\* ------------------------------------------------------------ team configs
TeamA == [id |-> "a", name |-> "Alpha", repos |-> <<"o/r1">>, color |-> "red"]
\* a team whose config gives no color
TeamB == [id |-> "b", name |-> "Beta", repos |-> <<"o/r2">>]
\* a team with two repositories
TeamC == [id |-> "c", name |-> "Gamma", repos |-> <<"o/r3", "o/r4">>, color |-> "green"]
\* a team without repositories, whose identifier is a key of the chart row
TeamTime == [id |-> "time", name |-> "Time", repos |-> <<>>, color |-> "blue"]

\* a second config entry under the identifier of TeamA
TeamA2 == [id |-> "a", name |-> "Alpha Two", repos |-> <<"o/r5">>, color |-> "pink"]

TeamIds == {"a", "b", "c", "time"}

\* The contents data/teams.json takes in the producer's behaviours.
Configs == { <<TeamA, TeamB>>, <<TeamC>>, <<TeamTime>>, <<>> }

\* What a run finds in data/teams.json: the maintainers move between the
\* configurations above; a file that is missing, damaged or hand-edited into
\* something else is found as it was left.
TeamsFileAtStart(file) ==
    IF file \in {JsonFile(cfg) : cfg \in Configs}
    THEN {JsonFile(cfg) : cfg \in Configs}
    ELSE {file}

\* ---------------------------------------------------- getCommitsInWindow
\* What octokit.repos.listCommits does: it throws, or answers with a page.
Responses == {[ok |-> FALSE, len |-> 0]} \cup
             {[ok |-> TRUE, len |-> n] : n \in 0..MaxCommits}

\* Mutant: a query that throws is counted as one commit.
getCommitsInWindowErrorCounts(resp) == IF resp.ok THEN resp.len ELSE 1

\* getCommitsInWindow: response.data.length, and 0 when the query throws.
getCommitsInWindow(resp) == IF resp.ok THEN resp.len ELSE 0

\* ------------------------------------------------------------ leaderboard
\* leaderboardMap.get(id)
MapHas(m, id) == \E i \in 1..Len(m) : m[i].id = id
MapGet(m, id) == m[CHOOSE i \in 1..Len(m) : m[i].id = id]

\* Mutant: an array that is pushed to, in place of the Map.
MapSetPushes(m, e) == Append(m, e)

\* leaderboardMap.set(e.id, e): an existing key keeps its place.
MapSet(m, e) ==
    IF MapHas(m, e.id)
    THEN [i \in 1..Len(m) |-> IF m[i].id = e.id THEN e ELSE m[i]]
    ELSE Append(m, e)

\* Mutant: the map starts empty, the current leaderboard is not carried over.
NewMapForgetsEntries(entries) == <<>>

\* new Map(currentLeaderboard.map(t => [t.id, t]))
RECURSIVE NewMap(_)
NewMap(entries) ==
    IF entries = <<>> THEN <<>>
    ELSE MapSet(NewMap(SubSeq(entries, 1, Len(entries) - 1)),
                entries[Len(entries)])

\* leaderboardMap.get(team.id) || { id, name, total_commits: 0, color }
LookupOrCreate(m, team) ==
    IF MapHas(m, team.id) THEN MapGet(m, team.id)
    ELSE [id |-> team.id, name |-> Prop(team, "name"),
          total_commits |-> 0, color |-> Prop(team, "color")]

\* Mutant: a team without commits in the window is passed over.
UpdateEntrySkipsQuietTeam(m, team, count) ==
    IF count = 0 THEN m
    ELSE LET e == LookupOrCreate(m, team)
         IN  MapSet(m, [e EXCEPT !.total_commits = @ + count])

\* Mutant: the window count replaces the total (= for +=).
UpdateEntryAssigns(m, team, count) ==
    LET e == LookupOrCreate(m, team)
    IN  MapSet(m, [e EXCEPT !.total_commits = count])

\* leaderboardEntry.total_commits += teamWindowCommits; leaderboardMap.set(...)
UpdateEntry(m, team, count) ==
    LET e == LookupOrCreate(m, team)
    IN  MapSet(m, [e EXCEPT !.total_commits = @ + count])

\* One step of the stable sort: e goes behind every element that the
\* comparator (b.total_commits - a.total_commits) does not put after it.
InsertDesc(sorted, e) ==
    LET k == Cardinality({i \in 1..Len(sorted) :
                             sorted[i].total_commits >= e.total_commits})
    IN  SubSeq(sorted, 1, k) \o <<e>> \o SubSeq(sorted, k + 1, Len(sorted))

\* Mutant: the values are written in the map's order, unsorted.
SortLeaderboardSkipped(m) == m

\* Array.from(leaderboardMap.values()).sort((a, b) => b.total_commits - a.total_commits)
RECURSIVE SortLeaderboard(_)
SortLeaderboard(m) ==
    IF m = <<>> THEN <<>>
    ELSE InsertDesc(SortLeaderboard(SubSeq(m, 1, Len(m) - 1)), m[Len(m)])

\* ---------------------------------------------------------------- history
\* arr.slice(-n)
SliceLast(arr, n) ==
    IF Len(arr) <= n THEN arr ELSE SubSeq(arr, Len(arr) - n + 1, Len(arr))

\* Mutant: the history grows without a cap.
FinalizeHistoryUncapped(history, entry) == Append(history, entry)

\* Mutant: the history is cut before the new entry is pushed.
FinalizeHistorySliceFirst(history, entry) ==
    Append(SliceLast(history, HistoryCap), entry)

\* history.push(newHistoryEntry); history = history.slice(-50)
FinalizeHistory(history, entry) == SliceLast(Append(history, entry), HistoryCap)

\* newHistoryEntry.teams[id] = count; newHistoryEntry.total += count
\* Mutant: the total of the entry is assigned, not added to (= for +=).
RecordWindowAssignsTotal(entry, id, count) ==
    [entry EXCEPT !.teams = (id :> count) @@ @, !.total = count]

RecordWindow(entry, id, count) ==
    [entry EXCEPT !.teams = (id :> count) @@ @, !.total = @ + count]

\* The entry a run with an empty team config appends at time t.
EmptyEntry(t) ==
    [time |-> TimeLabel(t), timestamp |-> t, teams |-> <<>>, total |-> 0]

\* The history file after n runs that found no team configured.
QuietHistory(n) == [t \in 1..n |-> EmptyEntry(t)]

\* Lengths of the history file the behaviours start from: no file yet, and a
\* file one short of the cap (the next run fills it, the one after evicts).
InitHistoryLens == {0, HistoryCap - 1}

\* ------------------------------------------------------------------ state
VARIABLES
    teamsFile,      \* data/teams.json
    lbFile,         \* data/leaderboard.json in the working directory
    histFile,       \* data/history.json in the working directory
    remote,         \* the two files on the pushed branch, which the client fetches
    clock,          \* wall clock, in windows
    runsStarted,    \* invocations of the worker so far
    run,            \* per invocation slot: the locals of runTracker
    windowSum,      \* history variable: per team, the sum of the window counts of
                    \* the runs that wrote the leaderboard
    \* the dashboard (App)
    leaderboard,    \* useState([]): the displayed leaderboard
    historyData,    \* useState([]): the displayed chart rows
    loading,        \* useState(true)
    lastUpdate,     \* useState(null)
    fetches         \* the invocations of fetchData, in the order they started

prodVars == <<teamsFile, lbFile, histFile, remote, clock,
              runsStarted, run, windowSum>>
clientVars == <<leaderboard, historyData, loading, lastUpdate, fetches>>

\* Slots for invocations of the worker; the scheduler uses the first.
Runners == {1, 2}
Scheduled == {1}

ZeroCounts == [id \in TeamIds |-> 0]

\* The two artifacts as a pair.
Artifacts(lb, hist) == [lb |-> lb, hist |-> hist]

NoArtifacts == Artifacts(MissingFile, MissingFile)

\* Where a run is: in the loop over teams, in commitFiles' two writes, in the
\* command chain, or over.
ComputePcs == {"teams", "repos", "finalize"}
WritePcs   == {"write_lb", "write_hist"}
GitPcs     == {"git_config", "git_add", "git_commit", "git_push"}
EndPcs     == {"done", "failed"}

\* A process that is not running.
IdleRun ==
    [pc |-> "idle", now |-> 0, teamsConfig |-> <<>>, leaderboardMap |-> <<>>,
     history |-> <<>>, newHistoryEntry |-> EmptyEntry(0), ti |-> 0, ri |-> 0,
     teamWindowCommits |-> 0, newLeaderboard |-> <<>>, exitCode |-> -1,
     \* git: what this run has staged and committed of the two files (a run
     \* pushes only what it staged and committed itself)
     staged |-> NoArtifacts, committed |-> NoArtifacts,
     \* history variables of the run
     \* (remoteWas: the remote as the run knows it, which is as it found
     \* it and, after its push, as it left it)
     prior |-> NoArtifacts, remoteWas |-> NoArtifacts, window |-> ZeroCounts,
     answered |-> ZeroCounts, errors |-> 0, failedAt |-> "none"]

\* runTracker().catch(...): process.exit(1). The locals die with the process;
\* the history variables say where it stopped, what it had read and, once
\* commitFiles was entered, what it was given to write.
Exited(rec) ==
    [IdleRun EXCEPT !.pc = "failed", !.exitCode = 1, !.failedAt = rec.pc,
                    !.prior = rec.prior, !.remoteWas = rec.remoteWas,
                    !.staged = rec.staged, !.committed = rec.committed,
                    !.now = rec.now,
                    !.teamsConfig = rec.teamsConfig,
                    !.newLeaderboard = rec.newLeaderboard,
                    !.history = IF rec.pc \in ComputePcs THEN <<>> ELSE rec.history]

Running(r) == run[r].pc \in ComputePcs \cup WritePcs \cup GitPcs

\* The working directory after n runs that found no team configured.
InitProducer ==
    /\ \E n \in InitHistoryLens :
          /\ lbFile = IF n = 0 THEN MissingFile ELSE JsonFile(<<>>)
          /\ histFile = IF n = 0 THEN MissingFile ELSE JsonFile(QuietHistory(n))
          /\ clock = n + 1
    /\ teamsFile = JsonFile(<<>>)
    /\ remote = Artifacts(lbFile, histFile)
    /\ runsStarted = 0
    /\ run = [r \in Runners |-> IdleRun]
    /\ windowSum = ZeroCounts

\* ---------------------------------------------------------------- actions
\* runTracker, lines 85-105: the window, the three reads, the new history
\* entry and the map of the current leaderboard. data/teams.json holds
\* whatever its maintainers last put there.
StartRun(r) ==
    /\ ~Running(r)
    /\ runsStarted < MaxRuns
    /\ runsStarted' = runsStarted + 1
    /\ clock' = clock + 1
    /\ teamsFile' \in TeamsFileAtStart(teamsFile)
    /\ LET currentLeaderboard == readJson(lbFile, <<>>)
       IN  run' = [run EXCEPT ![r] =
              [IdleRun EXCEPT
                 !.pc = "teams",
                 !.now = clock,
                 !.teamsConfig = readJson(teamsFile', <<>>),
                 !.history = readJson(histFile, <<>>),
                 !.newHistoryEntry = EmptyEntry(clock),
                 !.leaderboardMap = NewMap(currentLeaderboard),
                 !.ti = 1,
                 !.prior = Artifacts(lbFile, histFile),
                 !.remoteWas = remote]]
    /\ UNCHANGED <<clientVars, lbFile, histFile, remote, windowSum>>

\* for (const team of teamsConfig) { let teamWindowCommits = 0; ...
NextTeam(r) ==
    /\ run[r].pc = "teams"
    /\ run' = [run EXCEPT ![r] =
          IF run[r].ti <= Len(run[r].teamsConfig)
          THEN [@ EXCEPT !.pc = "repos", !.teamWindowCommits = 0, !.ri = 1]
          ELSE [@ EXCEPT !.pc = "finalize"]]
    /\ UNCHANGED <<clientVars, teamsFile, lbFile, histFile, remote, clock, runsStarted,
                   windowSum>>

\* const count = await getCommitsInWindow(...); teamWindowCommits += count
QueryRepo(r) ==
    /\ run[r].pc = "repos"
    /\ LET team == run[r].teamsConfig[run[r].ti]
       IN  /\ run[r].ri <= Len(team.repos)
           /\ \E resp \in Responses :
                run' = [run EXCEPT ![r] =
                   [@ EXCEPT
                      !.teamWindowCommits = @ + getCommitsInWindow(resp),
                      !.ri = @ + 1,
                      !.answered[team.id] = @ + (IF resp.ok THEN resp.len ELSE 0),
                      !.errors = IF resp.ok THEN @ ELSE 1]]
    /\ UNCHANGED <<clientVars, teamsFile, lbFile, histFile, remote, clock, runsStarted,
                   windowSum>>

\* Lines 121-132, once the team's repositories are done: the leaderboard
\* entry and the history entry take the team's window count.
UpdateTeam(r) ==
    /\ run[r].pc = "repos"
    /\ LET team == run[r].teamsConfig[run[r].ti]
           count == run[r].teamWindowCommits
       IN  /\ run[r].ri > Len(team.repos)
           /\ run' = [run EXCEPT ![r] =
                 [@ EXCEPT
                    !.leaderboardMap = UpdateEntry(@, team, count),
                    !.newHistoryEntry = RecordWindow(@, team.id, count),
                    !.window[team.id] = @ + count,
                    !.ti = @ + 1,
                    !.pc = "teams"]]
    /\ UNCHANGED <<clientVars, teamsFile, lbFile, histFile, remote, clock, runsStarted,
                   windowSum>>

\* Mutant: the finalized structures are saved at once, before commitFiles.
FinalizeAndSave(r) ==
    /\ run[r].pc = "finalize"
    /\ run' = [run EXCEPT ![r] =
          [@ EXCEPT
             !.newLeaderboard = SortLeaderboard(run[r].leaderboardMap),
             !.history = FinalizeHistory(@, run[r].newHistoryEntry),
             !.pc = "write_lb"]]
    /\ lbFile' = JsonFile(JsonStringify(run'[r].newLeaderboard))
    /\ histFile' = JsonFile(JsonStringify(run'[r].history))
    /\ UNCHANGED <<clientVars, teamsFile, remote, clock, runsStarted, windowSum>>

\* Lines 136-140: the sorted leaderboard and the capped history.
Finalize(r) ==
    /\ run[r].pc = "finalize"
    /\ run' = [run EXCEPT ![r] =
          [@ EXCEPT
             !.newLeaderboard = SortLeaderboard(run[r].leaderboardMap),
             !.history = FinalizeHistory(@, run[r].newHistoryEntry),
             !.pc = "write_lb"]]
    /\ UNCHANGED <<clientVars, teamsFile, lbFile, histFile, remote, clock, runsStarted,
                   windowSum>>

\* commitFiles, line 35
WriteLeaderboard(r) ==
    /\ run[r].pc = "write_lb"
    /\ lbFile' = JsonFile(JsonStringify(run[r].newLeaderboard))
    /\ windowSum' = [id \in TeamIds |-> windowSum[id] + run[r].window[id]]
    /\ run' = [run EXCEPT ![r].pc = "write_hist"]
    /\ UNCHANGED <<clientVars, teamsFile, histFile, remote, clock, runsStarted>>

\* Mutant: the history is read again when it is written, and the new entry
\* is put behind what the file holds then.
WriteHistoryRereads(r) ==
    /\ run[r].pc = "write_hist"
    /\ histFile' = JsonFile(JsonStringify(
          FinalizeHistory(readJson(histFile, <<>>), run[r].newHistoryEntry)))
    /\ run' = [run EXCEPT ![r].pc = "git_config"]
    /\ UNCHANGED <<clientVars, teamsFile, lbFile, remote, clock, runsStarted,
                   windowSum>>

\* commitFiles, line 36
WriteHistory(r) ==
    /\ run[r].pc = "write_hist"
    /\ histFile' = JsonFile(JsonStringify(run[r].history))
    /\ run' = [run EXCEPT ![r].pc = "git_config"]
    /\ UNCHANGED <<clientVars, teamsFile, lbFile, remote, clock, runsStarted,
                   windowSum>>

\* exec(commands): the commands of the && chain, each run only when the one
\* before it succeeded.  git config (user.email, user.name):
GitConfig(r) ==
    /\ run[r].pc = "git_config"
    /\ run' = [run EXCEPT ![r].pc = "git_add"]
    /\ UNCHANGED <<clientVars, teamsFile, lbFile, histFile, remote, clock, runsStarted,
                   windowSum>>

\* git add ${LEADERBOARD_FILE} ${HISTORY_FILE}
GitAdd(r) ==
    /\ run[r].pc = "git_add"
    /\ run' = [run EXCEPT ![r] =
          [@ EXCEPT !.staged = Artifacts(lbFile, histFile), !.pc = "git_commit"]]
    /\ UNCHANGED <<clientVars, teamsFile, lbFile, histFile, remote, clock, runsStarted,
                   windowSum>>

\* git commit -m ... --allow-empty
GitCommit(r) ==
    /\ run[r].pc = "git_commit"
    /\ run' = [run EXCEPT ![r] =
          [@ EXCEPT !.committed = run[r].staged, !.pc = "git_push"]]
    /\ UNCHANGED <<clientVars, teamsFile, lbFile, histFile, remote, clock, runsStarted,
                   windowSum>>

\* git push succeeds; exec's callback resolves and runTracker returns.
GitPush(r) ==
    /\ run[r].pc = "git_push"
    /\ remote' = run[r].committed
    /\ run' = [run EXCEPT ![r] =
          [@ EXCEPT !.pc = "done", !.exitCode = 0,
                    !.remoteWas = run[r].committed]]
    /\ UNCHANGED <<clientVars, teamsFile, lbFile, histFile, clock, runsStarted,
                   windowSum>>

\* Mutant: a failed publish puts the two files back as the run found them.
GitErrorRollsBack(r) ==
    /\ run[r].pc \in GitPcs
    /\ run' = [run EXCEPT ![r] = Exited(run[r])]
    /\ lbFile' = run[r].prior.lb
    /\ histFile' = run[r].prior.hist
    /\ UNCHANGED <<clientVars, teamsFile, remote, clock, runsStarted, windowSum>>

\* Mutant: the commands are chained so that a failing one is passed over
\* (; for &&), and exec sees the status of the last one only.
GitErrorPassedOver(r) ==
    /\ run[r].pc \in GitPcs
    /\ run' = [run EXCEPT ![r] =
          IF run[r].pc = "git_config" THEN [@ EXCEPT !.pc = "git_add"]
          ELSE IF run[r].pc = "git_add" THEN [@ EXCEPT !.pc = "git_commit"]
          ELSE IF run[r].pc = "git_commit" THEN [@ EXCEPT !.pc = "git_push"]
          ELSE Exited(run[r])]
    /\ UNCHANGED <<clientVars, teamsFile, lbFile, histFile, remote, clock, runsStarted,
                   windowSum>>

\* A command of the chain fails: exec calls back with err, commitFiles
\* rejects, and the catch of runTracker() exits with 1.
GitError(r) ==
    /\ run[r].pc \in GitPcs
    /\ run' = [run EXCEPT ![r] = Exited(run[r])]
    /\ UNCHANGED <<clientVars, teamsFile, lbFile, histFile, remote, clock, runsStarted,
                   windowSum>>

\* The run stops with an exception before or while it writes; the catch of
\* runTracker() exits with 1.
Crash(r) ==
    /\ run[r].pc \in ComputePcs \cup WritePcs
    /\ run' = [run EXCEPT ![r] = Exited(run[r])]
    /\ UNCHANGED <<clientVars, teamsFile, lbFile, histFile, remote, clock, runsStarted,
                   windowSum>>

RunStep(r) ==
    \/ StartRun(r)
    \/ NextTeam(r)
    \/ QueryRepo(r)
    \/ UpdateTeam(r)
    \/ Finalize(r)
    \/ WriteLeaderboard(r)
    \/ WriteHistory(r)
    \/ GitConfig(r)
    \/ GitAdd(r)
    \/ GitCommit(r)
    \/ GitPush(r)
    \/ GitError(r)
    \/ Crash(r)

ProducerNext == \E r \in Scheduled : RunStep(r)

\* ---------------------------------------------------------------- client
FetchIds == 1..MaxFetches

\* useState(null) of lastUpdate
Null == -1

\* setInterval(fetchData, 30000)
PollInterval == 30000

\* Date.now() at the c-th call of fetchData, in milliseconds since the module
\* was evaluated: the first call is made on mount, the others one interval
\* apart.
DateNow(c) == (c - 1) * PollInterval

\* The two URLs are constants of the module: their template literals, and
\* the Date.now() in them, are evaluated once, when the module is loaded.
LEADERBOARD_URL == [path |-> "data/leaderboard.json", cache |-> DateNow(1)]
HISTORY_URL == [path |-> "data/history.json", cache |-> DateNow(1)]
NoUrl == [path |-> "", cache |-> Null]

\* A fetchData that has not been called.
IdleFetch ==
    [pc |-> "idle", newLeaderboard |-> <<>>, rawHistory |-> <<>>,
     transformedHistory |-> <<>>,
     \* the URLs it has requested, and Date.now() when it was called
     lbUrl |-> NoUrl, histUrl |-> NoUrl, calledAt |-> Null,
     \* history variables: this invocation changed what is displayed; its
     \* place among the invocations that have returned (0: not returned)
     changed |-> FALSE, endedAt |-> 0]

\* The place the invocation that returns now takes.
NextEnd(fs) == 1 + Cardinality({d \in DOMAIN fs : fs[d].endedAt # 0})

\* rawHistory.map(entry => ...): base = {time, total}, then base[id] = count
\* for every [id, count] of entry.teams.
Flatten(entry) ==
    entry.teams @@ [time |-> entry.time, total |-> entry.total]

TransformHistory(rawHistory) ==
    [i \in 1..Len(rawHistory) |-> Flatten(rawHistory[i])]

InitClient ==
    /\ leaderboard = <<>>
    /\ historyData = <<>>
    /\ loading = TRUE
    /\ lastUpdate = Null
    /\ fetches = [c \in FetchIds |-> IdleFetch]

\* fetchData is called (useEffect's initial load, or a tick of setInterval):
\* setLoading(true), and the leaderboard is requested.
CallFetchData(c) ==
    /\ fetches[c].pc = "idle"
    /\ \A d \in FetchIds : d < c => fetches[d].pc # "idle"
    /\ loading' = TRUE
    /\ fetches' = [fetches EXCEPT ![c] =
          [@ EXCEPT !.pc = "lb", !.lbUrl = LEADERBOARD_URL,
                    !.calledAt = DateNow(c)]]
    /\ UNCHANGED <<prodVars, leaderboard, historyData, lastUpdate>>

\* Lines 43-48: the leaderboard arrives and parses; setLeaderboard; the
\* history is requested.
LeaderboardFetched(c) ==
    /\ fetches[c].pc = "lb"
    /\ remote.lb.kind = "json"
    /\ leaderboard' = remote.lb.val
    /\ fetches' = [fetches EXCEPT ![c] =
          [@ EXCEPT !.pc = "hist",
                    !.histUrl = HISTORY_URL,
                    !.newLeaderboard = remote.lb.val,
                    !.changed = (remote.lb.val # leaderboard)]]
    /\ UNCHANGED <<prodVars, historyData, loading, lastUpdate>>

\* Lines 49-61 and the finally: the history arrives and parses; it is
\* flattened; setHistoryData, setLastUpdate, setLoading(false).
HistoryFetched(c) ==
    /\ fetches[c].pc = "hist"
    /\ remote.hist.kind = "json"
    /\ LET rows == TransformHistory(remote.hist.val)
       IN  /\ historyData' = rows
           /\ fetches' = [fetches EXCEPT ![c] =
                 [@ EXCEPT !.pc = "ok",
                           !.endedAt = NextEnd(fetches),
                           !.rawHistory = remote.hist.val,
                           !.transformedHistory = rows,
                           !.changed = (@ \/ rows # historyData)]]
    /\ lastUpdate' = TimeLabel(clock)
    /\ loading' = FALSE
    /\ UNCHANGED <<prodVars, leaderboard>>

\* Mutant: setLoading(false) sits at the end of the try block, not in a
\* finally, so a call that throws leaves the flag as it is.
FetchFailsLeavesLoading(c) ==
    /\ fetches[c].pc \in {"lb", "hist"}
    /\ fetches' = [fetches EXCEPT ![c] =
          [@ EXCEPT !.pc = "failed", !.endedAt = NextEnd(fetches)]]
    /\ UNCHANGED <<prodVars, leaderboard, historyData, lastUpdate, loading>>

\* A fetch rejects, or its body is not JSON (the file is not published):
\* the catch logs, the finally does setLoading(false).
FetchFails(c) ==
    /\ fetches[c].pc \in {"lb", "hist"}
    /\ loading' = FALSE
    /\ fetches' = [fetches EXCEPT ![c] =
          [@ EXCEPT !.pc = "failed", !.endedAt = NextEnd(fetches)]]
    /\ UNCHANGED <<prodVars, leaderboard, historyData, lastUpdate>>

ClientNext ==
    \E c \in FetchIds :
        \/ CallFetchData(c)
        \/ LeaderboardFetched(c)
        \/ HistoryFetched(c)
        \/ FetchFails(c)

\* ---------------------------------------------------------- specifications
vars == <<prodVars, clientVars>>

\* The producer alone: the dashboard is not open.
Init == InitProducer /\ InitClient
Next == ProducerNext
Spec == Init /\ [][Next]_vars

\* The dashboard beside the producer's last scheduled invocation.
InitSystem ==
    /\ InitClient
    /\ \E n \in InitHistoryLens :
          /\ lbFile = IF n = 0 THEN MissingFile ELSE JsonFile(<<>>)
          /\ histFile = IF n = 0 THEN MissingFile ELSE JsonFile(QuietHistory(n))
          /\ clock = n + 1
    /\ teamsFile = JsonFile(<<>>)
    /\ remote = Artifacts(lbFile, histFile)
    /\ runsStarted = MaxRuns - 1
    /\ run = [r \in Runners |-> IdleRun]
    /\ windowSum = ZeroCounts
SystemNext == ProducerNext \/ ClientNext
SpecSystem == InitSystem /\ [][SystemNext]_vars


\* Two invocations of the worker over the same working directory, neither
\* waiting for the other (nothing in worker.js takes a lock). Both find
\* TeamA configured.
InitOverlap ==
    /\ InitClient
    /\ \E n \in InitHistoryLens :
          /\ lbFile = IF n = 0 THEN MissingFile ELSE JsonFile(<<>>)
          /\ histFile = IF n = 0 THEN MissingFile ELSE JsonFile(QuietHistory(n))
          /\ clock = n + 1
    /\ teamsFile = JsonFile(<<TeamA>>)
    /\ remote = Artifacts(lbFile, histFile)
    /\ runsStarted = MaxRuns - 2
    /\ run = [r \in Runners |-> IdleRun]
    /\ windowSum = ZeroCounts
OverlapNext == \E r \in Runners : RunStep(r)
SpecOverlap == InitOverlap /\ [][OverlapNext]_vars

\* One invocation of the worker over whatever the checkout holds. The two
\* artifacts are those a run over TeamA and TeamB wrote at time 1 (one commit
\* of TeamA), or such files damaged, deleted or hand-edited since.
OneWindowLeaderboard ==
    JsonStringify(SortLeaderboard(
        UpdateEntry(UpdateEntry(NewMap(<<>>), TeamA, 1), TeamB, 0)))
OneWindowHistory ==
    FinalizeHistory(<<>>,
        RecordWindow(RecordWindow(EmptyEntry(1), "a", 1), "b", 0))
\* a leaderboard file edited by hand into two entries of one team
DuplicatedLeaderboard ==
    OneWindowLeaderboard \o <<[OneWindowLeaderboard[1] EXCEPT !.total_commits = 2]>>
InputTeamsFiles ==
    {MissingFile, MalformedFile(<<TeamA, TeamB>>),
     JsonFile(<<TeamA, TeamB>>), JsonFile(<<TeamA, TeamA2>>)}
InputLeaderboardFiles ==
    {MissingFile, MalformedFile(OneWindowLeaderboard),
     JsonFile(OneWindowLeaderboard), JsonFile(DuplicatedLeaderboard)}
InputHistoryFiles ==
    {MissingFile, MalformedFile(OneWindowHistory), JsonFile(OneWindowHistory)}
InitInputs ==
    /\ InitClient
    /\ teamsFile \in InputTeamsFiles
    /\ lbFile \in InputLeaderboardFiles
    /\ histFile \in InputHistoryFiles
    /\ clock = 2
    /\ remote = Artifacts(lbFile, histFile)
    /\ runsStarted = MaxRuns - 1
    /\ run = [r \in Runners |-> IdleRun]
    /\ windowSum = ZeroCounts
SpecInputs == InitInputs /\ [][ProducerNext]_vars

\* The dashboard alone, while the worker is not running, over whatever is
\* published: the two artifacts, or a missing or damaged file in the place
\* of one (its fetch is answered with an error, or its json() throws).
InitPublished ==
    /\ InitClient
    /\ teamsFile = JsonFile(<<TeamA, TeamB>>)
    /\ lbFile \in InputLeaderboardFiles
    /\ histFile \in InputHistoryFiles
    /\ clock = 2
    /\ remote = Artifacts(lbFile, histFile)
    /\ runsStarted = MaxRuns
    /\ run = [r \in Runners |-> IdleRun]
    /\ windowSum = ZeroCounts
\* An awaited fetch (and the json() of its response) settles: the promise is
\* fulfilled or rejected, at the latest when the transport gives up.
Settles(c) == LeaderboardFetched(c) \/ HistoryFetched(c) \/ FetchFails(c)
SpecClientFair ==
    /\ InitPublished
    /\ [][ClientNext]_vars
    /\ \A c \in FetchIds : WF_vars(Settles(c))

\* -------------------------------------------------------------- properties
\* Helpers of the properties below.
Ids(entries) == {entries[i].id : i \in 1..Len(entries)}
Entry(entries, id) == MapGet(entries, id)
RECURSIVE SumOver(_, _)
SumOver(f, S) ==
    IF S = {} THEN 0
    ELSE LET x == CHOOSE y \in S : TRUE IN f[x] + SumOver(f, S \ {x})

\* The run has written both artifacts (it is in the command chain or done, or
\* it failed in the command chain).
Wrote(r) ==
    \/ run[r].pc \in GitPcs \cup {"done"}
    \/ run[r].pc = "failed" /\ run[r].failedAt \in GitPcs

\* What the run found in the two files when it started.
PriorLeaderboard(r) == readJson(run[r].prior.lb, <<>>)
PriorHistory(r) == readJson(run[r].prior.hist, <<>>)

\* C1: starting from an empty leaderboard, after every completed run the
\* persisted entry of each configured team holds the sum of the team's window
\* counts over the runs so far, and no total is lower than the run found it.
\* (windowSum adds up the window counts of every run that wrote the
\* leaderboard: the completed runs, and a run that failed after writing.)
C1_TotalsAreWindowSums ==
    \A r \in Runners :
        run[r].pc = "done" =>
            /\ \A id \in Ids(run[r].teamsConfig) :
                  /\ id \in Ids(lbFile.val)
                  /\ Entry(lbFile.val, id).total_commits = windowSum[id]
            /\ \A id \in Ids(PriorLeaderboard(r)) :
                  /\ id \in Ids(lbFile.val)
                  /\ Entry(lbFile.val, id).total_commits
                        >= Entry(PriorLeaderboard(r), id).total_commits

\* A second completed run has added to a total that the first had raised.
C1_Witness ==
    /\ run[1].pc = "done"
    /\ runsStarted = 2
    /\ run[1].window["a"] = 1
    /\ windowSum["a"] = 2
    /\ Entry(lbFile.val, "a").total_commits = 2

\* C2: the persisted history never has more than 50 entries.
C2_HistoryCapped ==
    histFile.kind = "json" => Len(histFile.val) <= HistoryCap

\* A run that found 50 entries has written 50.
C2_Witness ==
    /\ run[1].pc = "done"
    /\ Len(PriorHistory(1)) = HistoryCap
    /\ Len(histFile.val) = HistoryCap

\* C3: a run appends its one entry at the end and evicts from the front only:
\* the history it writes is the last 50 elements of (what it read, followed by
\* the new entry), so what it read survives in order except, when it read 50,
\* its oldest entry.
C3_AppendThenEvictFront ==
    \A r \in Runners :
        Wrote(r) =>
            LET old == PriorHistory(r)
                new == histFile.val
                drop == Len(old) + 1 - Len(new)
            IN  /\ Len(new) = IF Len(old) < HistoryCap THEN Len(old) + 1
                              ELSE HistoryCap
                /\ new[Len(new)].timestamp = run[r].now
                /\ new[Len(new)].timestamp \notin
                       {old[i].timestamp : i \in 1..Len(old)}
                /\ \A i \in 1..(Len(new) - 1) : new[i] = old[i + drop]
                /\ Len(old) = HistoryCap =>
                       /\ \A i \in 1..Len(new) : new[i] # old[1]
                       /\ new[HistoryCap].timestamp = run[r].now

\* A run that read 50 entries has written its own at index 49 (from 0).
C3_Witness ==
    /\ run[1].pc = "done"
    /\ Len(PriorHistory(1)) = HistoryCap
    /\ histFile.val[HistoryCap].timestamp = run[1].now
    /\ histFile.val[1] = PriorHistory(1)[2]

\* C4: the persisted leaderboard is sorted descending by total_commits,
\* entries of teams that left the config included.
C4_LeaderboardSorted ==
    lbFile.kind = "json" =>
        \A i, j \in 1..Len(lbFile.val) :
            i < j => lbFile.val[i].total_commits >= lbFile.val[j].total_commits

\* The sort moved an entry, and a team that is no longer configured is listed.
C4_Witness ==
    /\ run[1].pc = "done"
    /\ run[1].newLeaderboard # run[1].leaderboardMap
    /\ Ids(lbFile.val) \ Ids(run[1].teamsConfig) # {}
    /\ lbFile.val[1].total_commits > lbFile.val[Len(lbFile.val)].total_commits

\* C5: a query that throws adds 0: the window count of each configured team,
\* the entry's total and the leaderboard totals are those of the answered
\* queries alone, and the run reaches the publish step with a leaderboard
\* entry and a history key for every configured team.
C5_ErrorsCountZero ==
    \A r \in Runners :
        run[r].pc \in WritePcs \cup GitPcs \cup {"done"} =>
            LET cfg == Ids(run[r].teamsConfig)
                entry == run[r].newHistoryEntry
            IN  /\ DOMAIN entry.teams = cfg
                /\ \A id \in cfg : entry.teams[id] = run[r].answered[id]
                /\ entry.total = SumOver(run[r].answered, cfg)
                /\ cfg \subseteq Ids(run[r].newLeaderboard)
                /\ \A id \in cfg :
                      Entry(run[r].newLeaderboard, id).total_commits =
                          run[r].answered[id] +
                          (IF id \in Ids(PriorLeaderboard(r))
                           THEN Entry(PriorLeaderboard(r), id).total_commits
                           ELSE 0)

\* The first team's query threw, the next team's was still made and counted.
C5_Witness ==
    /\ run[1].pc = "write_lb"
    /\ run[1].teamsConfig = <<TeamA, TeamB>>
    /\ run[1].errors = 1
    /\ run[1].newHistoryEntry.teams = [a |-> 0, b |-> 1]
    /\ run[1].newHistoryEntry.total = 1

\* C6: when a command of the publish chain fails, the process exits non-zero
\* and the two local files hold what the run wrote, not what it found.
C6_PublishFailureKeepsWrite ==
    \A r \in Runners :
        (run[r].pc = "failed" /\ run[r].failedAt \in GitPcs) =>
            /\ run[r].exitCode # 0
            /\ lbFile = JsonFile(JsonStringify(run[r].newLeaderboard))
            /\ histFile = JsonFile(JsonStringify(run[r].history))
            /\ histFile # run[r].prior.hist

\* A push failed after a run that changed the leaderboard.
C6_Witness ==
    /\ run[1].pc = "failed"
    /\ run[1].failedAt = "git_push"
    /\ lbFile # run[1].prior.lb
    /\ remote.lb # lbFile

\* C9: an entry of the leaderboard the run read whose team is not in the
\* config is in the leaderboard the run writes, unchanged.
C9_EntriesNeverDeleted ==
    \A r \in Runners :
        Wrote(r) =>
            \A i \in 1..Len(PriorLeaderboard(r)) :
                LET e == PriorLeaderboard(r)[i]
                IN  /\ e.id \in Ids(lbFile.val)
                    /\ e.id \notin Ids(run[r].teamsConfig) =>
                          Entry(lbFile.val, e.id) = e

\* A team with commits left the config and the next run kept its entry.
C9_Witness ==
    /\ run[1].pc = "done"
    /\ run[1].teamsConfig = <<TeamC>>
    /\ "a" \in Ids(PriorLeaderboard(1))
    /\ Entry(lbFile.val, "a").total_commits = 1
    /\ Entry(lbFile.val, "b").name = "Beta"

\* C10: until commitFiles writes, the two files are as the run found them,
\* also when the run stops there.
C10_CrashLeavesArtifacts ==
    \A r \in Runners :
        (\/ run[r].pc \in ComputePcs \cup {"write_lb"}
         \/ run[r].pc = "failed" /\ run[r].failedAt \in ComputePcs \cup {"write_lb"})
        => /\ lbFile = run[r].prior.lb
           /\ histFile = run[r].prior.hist

\* A run stopped after it had processed its teams and finalized nothing.
C10_Witness ==
    /\ run[1].pc = "failed"
    /\ run[1].failedAt = "finalize"
    /\ teamsFile.val = <<TeamA, TeamB>>
    /\ runsStarted = 2
    /\ lbFile.kind = "json" /\ Len(lbFile.val) = 2

\* The inverse of Flatten that the team identifiers give: the row's time and
\* total, and the row's value at every identifier.
Unflatten(row, ids) ==
    [time |-> row.time, total |-> row.total, teams |-> [id \in ids |-> row[id]]]

\* C11: a team config, leaderboard or history file that is missing or does
\* not parse does not stop the run. The run goes on with the empty list in
\* its place: no team is processed when the config is unreadable; when the
\* leaderboard is unreadable the file written holds the configured teams
\* only, each with this window's count, and nothing of what the file held;
\* when the history is unreadable the file written holds the new entry alone;
\* and the run that completes has published exactly these files.
C11_UnreadableFileReadsAsEmpty ==
    \A r \in Scheduled :
        LET rec == run[r]
        IN  /\ (rec.pc # "idle" /\ teamsFile.kind # "json") =>
                  rec.teamsConfig = <<>>
            /\ (Wrote(r) /\ rec.prior.lb.kind # "json") =>
                  /\ lbFile = JsonFile(JsonStringify(rec.newLeaderboard))
                  /\ Ids(lbFile.val) = Ids(rec.teamsConfig)
                  /\ rec.pc # "failed" =>
                        \A i \in 1..Len(lbFile.val) :
                            lbFile.val[i].total_commits
                                = rec.window[lbFile.val[i].id]
            /\ (Wrote(r) /\ rec.prior.hist.kind # "json") =>
                  /\ histFile = JsonFile(JsonStringify(rec.history))
                  /\ Len(histFile.val) = 1
                  /\ histFile.val[1].timestamp = rec.now
            /\ (rec.pc = "done" /\ "json" \notin
                    {teamsFile.kind, rec.prior.lb.kind, rec.prior.hist.kind}) =>
                  /\ rec.exitCode = 0
                  /\ remote = Artifacts(lbFile, histFile)
                  /\ lbFile = JsonFile(<<>>)

\* A run over a damaged leaderboard and a damaged history, which held a
\* commit of TeamA, has completed: the published leaderboard knows TeamC only.
C11_Witness ==
    /\ run[1].pc = "done"
    /\ run[1].prior.lb = MalformedFile(OneWindowLeaderboard)
    /\ run[1].prior.hist = MalformedFile(OneWindowHistory)
    /\ run[1].teamsConfig = <<TeamC>>
    /\ Ids(remote.lb.val) = {"c"}
    /\ Len(remote.hist.val) = 1

\* What commitFiles of run r was given to write, as the two files.
Written(r) ==
    Artifacts(JsonFile(JsonStringify(run[r].newLeaderboard)),
              JsonFile(JsonStringify(run[r].history)))
\* Where run r is, or where it stopped.
Stage(r) == IF run[r].pc = "failed" THEN run[r].failedAt ELSE run[r].pc

\* C12: the publish goes write, write, stage, commit, push, over exactly the
\* two files the run wrote, and a step happens only when every step before it
\* has succeeded: nothing is staged before both files are written, nothing is
\* committed that was not staged, nothing reaches the remote that was not
\* committed. A run that fails at a step exits with 1 and no later step has
\* happened; a run ends with 0 only when the remote holds what it wrote.
C12_PublishInOrderOrFail ==
    \A r \in Scheduled :
        LET rec == run[r]
            at == Stage(r)
            written == Written(r)
        IN  /\ at \in ComputePcs \cup {"write_lb"} =>
                  Artifacts(lbFile, histFile) = rec.prior
            /\ at = "write_hist" => histFile = rec.prior.hist
            /\ at \in ComputePcs \cup WritePcs \cup {"git_config", "git_add"} =>
                  rec.staged = NoArtifacts
            /\ at \in {"git_commit", "git_push", "done"} =>
                  /\ rec.staged = written
                  /\ Artifacts(lbFile, histFile) = written
            /\ at # "idle" /\ at \notin {"git_push", "done"} =>
                  rec.committed = NoArtifacts
            /\ at \in {"git_push", "done"} => rec.committed = rec.staged
            /\ at # "idle" /\ at # "done" => remote = rec.remoteWas
            /\ rec.pc = "done" => rec.exitCode = 0 /\ remote = written
            /\ rec.pc = "failed" => rec.exitCode = 1
            /\ rec.pc \notin EndPcs => rec.exitCode = -1

\* The commit failed: the two files are written and staged, nothing is
\* committed, and the remote is as the run found it.
C12_Witness ==
    /\ run[1].pc = "failed"
    /\ run[1].failedAt = "git_commit"
    /\ run[1].staged = Artifacts(lbFile, histFile)
    /\ run[1].staged # run[1].prior
    /\ run[1].committed = NoArtifacts
    /\ remote = run[1].remoteWas
    /\ remote # run[1].staged

\* No call of fetchData is waiting for an answer.
Settled == \A c \in FetchIds : fetches[c].pc \in {"idle", "ok", "failed"}
\* The call that returned last.
LastEnded == CHOOSE c \in FetchIds :
                \A d \in FetchIds : fetches[d].endedAt <= fetches[c].endedAt

\* C13: when no fetch cycle is in flight and the cycle that completed last
\* succeeded, the dashboard shows the leaderboard and the history that this
\* cycle fetched, not a leaderboard of one cycle with a history of another.
C13_SettledSnapshotOfLastCycle ==
    (Settled /\ fetches[LastEnded].pc = "ok") =>
        /\ leaderboard = fetches[LastEnded].newLeaderboard
        /\ historyData = fetches[LastEnded].transformedHistory

\* C14: two invocations are not kept apart. When both have read the same
\* leaderboard and history (each read before the other wrote) and both have
\* written, each file is the one a single invocation computed: the
\* leaderboard totals leave out the other invocation's window counts, and
\* the history has the entry of one invocation and not that of the other.
C14_OverlapLosesUpdate ==
    \A r, q \in Runners :
        (r # q /\ Wrote(r) /\ Wrote(q) /\ run[r].prior = run[q].prior) =>
            /\ \E w \in {r, q} :
                  lbFile = JsonFile(JsonStringify(run[w].newLeaderboard))
            /\ \E w \in {r, q} :
                  /\ histFile = JsonFile(JsonStringify(run[w].history))
                  /\ \A l \in {r, q} \ {w} :
                        \A i \in 1..Len(histFile.val) :
                            histFile.val[i].timestamp # run[l].now
            /\ (run[r].pc = "done" /\ run[q].pc = "done") =>
                  \E l \in {r, q} :
                      \A id \in Ids(lbFile.val) :
                          Entry(lbFile.val, id).total_commits + run[l].window[id]
                              = Entry(PriorLeaderboard(l) \o
                                      <<[id |-> id, total_commits |-> 0]>>,
                                      id).total_commits + windowSum[id]

\* Both invocations counted one commit of TeamA and completed: the persisted
\* total is 1 where the windows add up to 2, and the history grew by one
\* entry, not two.
C14_Witness ==
    /\ run[1].pc = "done" /\ run[2].pc = "done"
    /\ run[1].prior = run[2].prior
    /\ run[1].window["a"] = 1 /\ run[2].window["a"] = 1
    /\ windowSum["a"] = 2
    /\ Entry(lbFile.val, "a").total_commits = 1
    /\ Len(histFile.val) = Len(PriorHistory(1)) + 1
    /\ remote = Artifacts(lbFile, histFile)

\* The total the run found for a team, 0 when the leaderboard had no entry.
PriorTotal(r, id) ==
    IF id \in Ids(PriorLeaderboard(r))
    THEN Entry(PriorLeaderboard(r), id).total_commits
    ELSE 0

\* C15: the total of the history entry a run produces is the sum of the
\* counts in its teams mapping, and what the run added to the leaderboard
\* total of a team is that team's count in the mapping. The same sum holds
\* of every entry of the persisted history. (Team identifiers are distinct
\* within a config, as the data model has them.)
C15_EntryTotalIsSumOfTeams ==
    /\ \A i \in 1..Len(histFile.val) :
          histFile.val[i].total
              = SumOver(histFile.val[i].teams, DOMAIN histFile.val[i].teams)
    /\ \A r \in Scheduled :
          run[r].pc \in WritePcs \cup GitPcs \cup {"done"} =>
              LET entry == run[r].newHistoryEntry
              IN  /\ entry.total = SumOver(entry.teams, DOMAIN entry.teams)
                  /\ DOMAIN entry.teams = Ids(run[r].teamsConfig)
                  /\ \A id \in DOMAIN entry.teams :
                        Entry(run[r].newLeaderboard, id).total_commits
                            = PriorTotal(r, id) + entry.teams[id]
                  /\ run[r].pc \in GitPcs \cup {"done"} =>
                        histFile.val[Len(histFile.val)] = entry

\* A run over TeamA and TeamB, both known with one commit each, has counted
\* one commit for each: its entry has total 2 and each total went from 1 to 2.
C15_Witness ==
    /\ run[1].pc = "done"
    /\ run[1].newHistoryEntry.total = 2
    /\ run[1].newHistoryEntry.teams = [a |-> 1, b |-> 1]
    /\ PriorTotal(1, "a") = 1 /\ PriorTotal(1, "b") = 1
    /\ Entry(lbFile.val, "a").total_commits = 2
    /\ Entry(lbFile.val, "b").total_commits = 2

\* C16: once a run has written, every team of the config has an entry in the
\* persisted leaderboard and a key in the teams mapping of the new history
\* entry, a team with count 0 included; the entry of a team the leaderboard
\* did not know has this window's count as its total and the name and color
\* the config gives the team (no color where the config gives none).
C16_EveryConfiguredTeamRecorded ==
    \A r \in Scheduled :
        run[r].pc \in GitPcs \cup {"done"} =>
            \A i \in 1..Len(run[r].teamsConfig) :
                LET team == run[r].teamsConfig[i]
                    last == histFile.val[Len(histFile.val)]
                IN  /\ team.id \in Ids(lbFile.val)
                    /\ team.id \in DOMAIN run[r].newHistoryEntry.teams
                    /\ team.id \in DOMAIN last.teams
                    /\ team.id \notin Ids(PriorLeaderboard(r)) =>
                          LET e == Entry(lbFile.val, team.id)
                          IN  /\ e.total_commits = last.teams[team.id]
                              /\ e.name = team.name
                              /\ Prop(e, "color") = Prop(team, "color")

\* A first run over TeamA and TeamB: one commit of TeamA, the query of
\* TeamB's repository failed. TeamB, which has no color, is on the
\* leaderboard with total 0 and in the history entry with count 0.
C16_Witness ==
    /\ run[1].pc = "done"
    /\ run[1].teamsConfig = <<TeamA, TeamB>>
    /\ PriorLeaderboard(1) = <<>>
    /\ run[1].errors = 1
    /\ histFile.val[Len(histFile.val)].teams = [a |-> 1, b |-> 0]
    /\ lbFile.val = <<[id |-> "a", name |-> "Alpha", total_commits |-> 1,
                       color |-> "red"],
                      [id |-> "b", name |-> "Beta", total_commits |-> 0]>>

\* C17: the requests of a fetch cycle carry a cache-defeating value that no
\* earlier cycle has used.
C17_CacheValueDiffersPerCycle ==
    \A c, d \in FetchIds :
        (c < d /\ fetches[c].pc # "idle" /\ fetches[d].pc # "idle") =>
            /\ fetches[d].lbUrl.cache # fetches[c].lbUrl.cache
            /\ (fetches[c].histUrl # NoUrl /\ fetches[d].histUrl # NoUrl) =>
                  fetches[d].histUrl.cache # fetches[c].histUrl.cache

\* C18: the leaderboard a run has written holds no two entries with the same
\* team identifier, also when the leaderboard it read held two entries of one
\* team or the config names one identifier twice.
C18_OneEntryPerTeam ==
    \A r \in Scheduled :
        Wrote(r) =>
            \A i, j \in 1..Len(lbFile.val) :
                lbFile.val[i].id = lbFile.val[j].id => i = j

\* A run over a config that names TeamA's identifier twice and a leaderboard
\* with two entries of TeamA has completed: one entry of TeamA is persisted.
C18_Witness ==
    /\ run[1].pc = "done"
    /\ run[1].prior.lb = JsonFile(DuplicatedLeaderboard)
    /\ run[1].teamsConfig = <<TeamA, TeamA2>>
    /\ Len(lbFile.val) = 2
    /\ Ids(lbFile.val) = {"a", "b"}

\* The call c of fetchData is between its setLoading(true) and its return.
InFlight(c) == fetches[c].pc \in {"lb", "hist"}

\* C19: every fetch cycle that has started ends, by success or by failure;
\* the step that ends it leaves the loading flag false; and lastUpdate
\* changes only in the step by which a cycle ends in success, that is, after
\* both fetches and the transform of the history.
C19_CycleEndsLoadingFalse ==
    /\ \A c \in FetchIds : InFlight(c) ~> fetches[c].pc \in {"ok", "failed"}
    /\ [][\A c \in FetchIds :
              (InFlight(c) /\ ~InFlight(c)') => loading' = FALSE]_vars
    /\ [][lastUpdate' # lastUpdate =>
              \E c \in FetchIds :
                  /\ fetches[c].pc = "hist"
                  /\ fetches'[c].pc = "ok"
                  /\ historyData' = TransformHistory(fetches'[c].rawHistory)]_vars

\* After a cycle that succeeded and set lastUpdate, a second one has failed:
\* nothing is in flight and the loading flag is false.
C19_Witness ==
    /\ fetches[1].pc = "ok"
    /\ fetches[2].pc = "failed"
    /\ Settled
    /\ loading = FALSE
    /\ lastUpdate # Null

\* C7: a fetch cycle that fails leaves the displayed leaderboard and the
\* displayed history as they were: it has changed neither.
C7_FailedFetchKeepsSnapshot ==
    \A c \in FetchIds : fetches[c].pc = "failed" => ~fetches[c].changed

\* C8: a successful fetch shows the leaderboard as published, one chart row
\* per history entry, and from each row the entry's time, total and per-team
\* counts are recovered, given the team identifiers.
C8_FlattenInvertible ==
    \A c \in FetchIds :
        fetches[c].pc = "ok" =>
            LET raw == fetches[c].rawHistory
                rows == fetches[c].transformedHistory
            IN  /\ Len(rows) = Len(raw)
                /\ \A i \in 1..Len(raw) :
                      Unflatten(rows[i], DOMAIN raw[i].teams) =
                          [time |-> raw[i].time, total |-> raw[i].total,
                           teams |-> raw[i].teams]

====
